---- MODULE Spec2Model ----
(***************************************************************************)
(* EcardV2 backend: signup, login, profile and the admin-only user routes, *)
(* as a state machine over the users table, the clock, the tokens issued   *)
(* to clients and the requests in flight.                                  *)
(*                                                                         *)
(* A JavaScript string is a sequence of one-character strings.  A handler  *)
(* runs from one await to the next in one step; the store call it awaits   *)
(* takes effect at the start of the step that resumes it.                  *)
(***************************************************************************)
EXTENDS Integers, Sequences, FiniteSets, TLC

VARIABLES
    users,      \* the rows of the users table
    nextId,     \* the id the table gives the next inserted row
    now,        \* the clock, in seconds
    issued,     \* the tokens signup and login have returned
    reqs,       \* the requests: inputs, position, locals and response
    JWT_SECRET, \* whether process.env.JWT_SECRET has a value
    server      \* the process: "starting", "listening" or "exited"

vars == <<users, nextId, now, issued, reqs, JWT_SECRET, server>>

\* What no request handler changes.
env == <<JWT_SECRET, server>>

\* ---------------------------------------------------------------- bounds
MaxUsers == 1      \* rows the store is asked to insert in one run
MaxTicks == 3      \* clock advances in one run
MaxTokens == 2     \* tokens issued in one run
MaxLen == 3        \* length of the usernames the validation is tried on
MaxPwLen == 7      \* length of the passwords the validation is tried on

\* ------------------------------------------------------ program constants
ExpiresIn == 604800        \* expiresIn: "7d", in seconds
SaltRounds == 12           \* bcrypt.hash(password, 12)
MinUsernameLen == 3
MinPasswordLen == 6

Slots == {1}              \* one request at a time
RaceSlots == {1, 2}       \* two requests in flight

\* ---------------------------------------------------------------- strings
NameRoot == <<"r", "o", "o", "t">>
NameA == <<"a", "n", "n">>
PwGood == <<"s", "e", "c", "r", "e", "t">>
PwOther == <<"h", "u", "n", "t", "e", "r">>
PwShort == <<"p", "w">>

WordChars == {"a", "b", "n", "o", "r", "t", "_", "7"}
Whitespace == {" "}

\* A JavaScript value of a request body field: undefined or a string.
Undefined == [t |-> "undefined", s |-> <<>>]
Str(s) == [t |-> "string", s |-> s]

\* !v for a body field
Falsy(v) == v.t = "undefined" \/ Len(v.s) = 0

RECURSIVE TrimStart(_)
TrimStart(s) ==
    IF Len(s) > 0 /\ s[1] \in Whitespace THEN TrimStart(Tail(s)) ELSE s

RECURSIVE TrimEnd(_)
TrimEnd(s) ==
    IF Len(s) > 0 /\ s[Len(s)] \in Whitespace
    THEN TrimEnd(SubSeq(s, 1, Len(s) - 1))
    ELSE s

\* String.prototype.trim
Trim(s) == TrimEnd(TrimStart(s))

\* /^[a-zA-Z0-9_]+$/.test(s)
MatchesWord(s) == Len(s) >= 1 /\ \A i \in 1..Len(s) : s[i] \in WordChars

\* ------------------------------------------------------------- validation
MsgUsernameLen == "Username must be at least 3 characters long"
MsgPasswordLen == "Password must be at least 6 characters long"
MsgUsernameFormat == "Username can only contain letters, numbers, and underscores"

UsernameTooShort(username) ==
    Falsy(username) \/ Len(Trim(username.s)) < MinUsernameLen

PasswordTooShort(password) ==
    Falsy(password) \/ Len(password.s) < MinPasswordLen

UsernameBadFormat(username) ==
    ~Falsy(username) /\ ~MatchesWord(username.s)

\* A validation that stops at the first violation.
validateFirstOnly(username, password) ==
    IF UsernameTooShort(username) THEN <<MsgUsernameLen>>
    ELSE IF PasswordTooShort(password) THEN <<MsgPasswordLen>>
    ELSE IF UsernameBadFormat(username) THEN <<MsgUsernameFormat>>
    ELSE <<>>

validateSignupInput(username, password) ==
    (IF UsernameTooShort(username) THEN <<MsgUsernameLen>> ELSE <<>>)
    \o (IF PasswordTooShort(password) THEN <<MsgPasswordLen>> ELSE <<>>)
    \o (IF UsernameBadFormat(username) THEN <<MsgUsernameFormat>> ELSE <<>>)

\* ----------------------------------------------------------------- bcrypt
\* The hash string: version and cost prefix, then the digest of the password.
\* The salt is not modelled: compare re-derives the digest from the prefix.
BcryptHash(password, rounds) == <<"$2b$", ToString(rounds), "$">> \o password

BcryptCompare(password, hash) ==
    /\ Len(hash) >= 3
    /\ hash = SubSeq(hash, 1, 3) \o password

\* ------------------------------------------------------------------- rows
NoRow == [id |-> 0, username |-> <<>>, role |-> "", created_at |-> 0]

\* .select("id, username, role, created_at")
Public(u) ==
    [id |-> u.id, username |-> u.username, role |-> u.role,
     created_at |-> u.created_at]

AdminRow ==
    [id |-> 1, username |-> NameRoot,
     password |-> BcryptHash(PwGood, SaltRounds),
     role |-> "admin", created_at |-> 0]

\* ------------------------------------------------------- the users table
\* What a supabase call resolves to: { data, error }.
ErrNone == "none"
ErrNoRows == "PGRST116"        \* .single() found no row
ErrUnique == "23505"           \* unique constraint on users.username
ErrNetwork == "network"        \* the store could not be reached

\* .from("users").select(...).eq("username", name).single()
SelectByUsername(tbl, name) ==
    LET hit == {u \in tbl : u.username = name}
    IN  IF hit = {} THEN [data |-> NoRow, error |-> ErrNoRows, found |-> FALSE]
        ELSE LET u == CHOOSE u \in hit : TRUE
             IN  [data |-> u, error |-> ErrNone, found |-> TRUE]

\* .from("users").select(...).eq("id", id).single()
SelectById(tbl, id) ==
    LET hit == {u \in tbl : u.id = id}
    IN  IF hit = {} THEN [data |-> NoRow, error |-> ErrNoRows, found |-> FALSE]
        ELSE LET u == CHOOSE u \in hit : TRUE
             IN  [data |-> u, error |-> ErrNone, found |-> TRUE]

\* .from("users").insert([row]): username VARCHAR(255) UNIQUE NOT NULL
InsertRow(tbl, row) ==
    IF \E u \in tbl : u.username = row.username
    THEN [table |-> tbl, error |-> ErrUnique]
    ELSE [table |-> tbl \cup {row}, error |-> ErrNone]

\* An update that lost its .eq("id", id) filter.
UpdateRoleNoFilter(tbl, id, role) == {[u EXCEPT !.role = role] : u \in tbl}

\* .from("users").update({ role }).eq("id", id)
UpdateRole(tbl, id, role) ==
    {IF u.id = id THEN [u EXCEPT !.role = role] ELSE u : u \in tbl}

\* .from("users").delete().eq("id", id)
DeleteRow(tbl, id) == {u \in tbl : u.id # id}

\* -------------------------------------------------------------------- jwt
\* A token string, seen through what jwt.verify reads in it: the payload and
\* whether the signature is the one JWT_SECRET gives ("ok"), another key's
\* ("forged"), or the string is no JWT at all ("malformed").
NoToken == [id |-> 0, username |-> <<>>, role |-> "", iat |-> 0, exp |-> 0,
            sig |-> "none"]

\* jwt.sign({ id, username, role }, JWT_SECRET, { expiresIn: "7d" })
JwtSign(row, clock) ==
    [id |-> row.id, username |-> row.username, role |-> row.role,
     iat |-> clock, exp |-> clock + ExpiresIn, sig |-> "ok"]

\* The payload jwt.verify returns.
Claims(t) ==
    [id |-> t.id, username |-> t.username, role |-> t.role,
     iat |-> t.iat, exp |-> t.exp]

NoClaims == Claims(NoToken)

\* A token made with another secret, claiming to be the administrator.
ForgedAdmin ==
    [id |-> 1, username |-> NameRoot, role |-> "admin", iat |-> 0,
     exp |-> (MaxTicks + 1) * ExpiresIn, sig |-> "forged"]

Garbage == [NoToken EXCEPT !.sig = "malformed"]

\* An Authorization header is a sequence of parts: the literal "Bearer " or
\* a token string.  The absent header and the empty string are both <<>>.
BearerPart == [lit |-> "Bearer ", tok |-> NoToken]
TokPart(t) == [lit |-> "", tok |-> t]

\* jsonwebtoken's verify: the string is parsed, the signature is checked,
\* then the expiry: clockTimestamp >= payload.exp throws TokenExpiredError.
\* An expiry test that still accepts the token in its last second.
JwtExpiredAfter(t, clock) == clock > t.exp

JwtExpired(t, clock) == clock >= t.exp

\* A verify that reads the payload without checking the signature.
JwtDecodeOnly(str, clock) ==
    IF Len(str) # 1 \/ str[1].lit # ""
    THEN [ok |-> FALSE, name |-> "JsonWebTokenError", decoded |-> NoClaims]
    ELSE IF JwtExpired(str[1].tok, clock)
    THEN [ok |-> FALSE, name |-> "TokenExpiredError", decoded |-> NoClaims]
    ELSE [ok |-> TRUE, name |-> "", decoded |-> Claims(str[1].tok)]

JwtVerify(str, clock) ==
    IF Len(str) # 1 \/ str[1].lit # "" \/ str[1].tok.sig # "ok"
    THEN [ok |-> FALSE, name |-> "JsonWebTokenError", decoded |-> NoClaims]
    ELSE IF JwtExpired(str[1].tok, clock)
    THEN [ok |-> FALSE, name |-> "TokenExpiredError", decoded |-> NoClaims]
    ELSE [ok |-> TRUE, name |-> "", decoded |-> Claims(str[1].tok)]

\* A gate that verifies the header as it came.
GateTokenWhole(h) == h

\* jwt.verify(token, process.env.JWT_SECRET): without a key it throws a
\* JsonWebTokenError for every signed token.
JwtVerifyEnv(str, clock) ==
    IF JWT_SECRET THEN JwtVerify(str, clock)
    ELSE [ok |-> FALSE, name |-> "JsonWebTokenError", decoded |-> NoClaims]

\* authHeader.startsWith("Bearer ") ? authHeader.slice(7) : authHeader
GateToken(h) ==
    IF Len(h) >= 1 /\ h[1] = BearerPart THEN Tail(h) ELSE h

\* req.headers.authorization?.replace("Bearer ", ""): the first occurrence
RECURSIVE RemoveFirstBearer(_)
RemoveFirstBearer(h) ==
    IF h = <<>> THEN <<>>
    ELSE IF h[1] = BearerPart THEN Tail(h)
    ELSE <<h[1]>> \o RemoveFirstBearer(Tail(h))

ProfileToken(h) == RemoveFirstBearer(h)

\* -------------------------------------------------------------- responses
NoResp ==
    [status |-> 0, error |-> "", details |-> <<>>, user |-> NoRow,
     users |-> {}, token |-> NoToken, message |-> "", line |-> ""]

\* res.status(status).json({ error }) at the given return statement
ErrorResp(status, error, line) ==
    [NoResp EXCEPT !.status = status, !.error = error, !.line = line]

\* ---------------------------------------------------------------- requests
Idle ==
    [kind |-> "idle", pc |-> "idle",
     username |-> Undefined, password |-> Undefined, role |-> "",
     auth |-> <<>>, id |-> 0, user |-> NoClaims,
     error |-> ErrNone, resp |-> NoResp]

Done(r) == reqs[r].pc = "done"

Respond(r, req, resp) ==
    reqs' = [reqs EXCEPT ![r] = [req EXCEPT !.pc = "done", !.resp = resp]]

Await(r, req, pc) ==
    reqs' = [reqs EXCEPT ![r] = [req EXCEPT !.pc = pc]]

\* The outcome of a store call: the call's own, or a transport failure.
Faults == {FALSE, TRUE}

\* What the clients send.
SignupNames == {Str(NameA)}
SignupPasswords == {Str(PwGood), Str(PwShort)}
LoginNames == {Str(NameRoot), Str(NameA), Undefined}
LoginPasswords == {Str(PwGood), Str(PwOther)}
SignupRoles == {"", "admin"}       \* a role field signup never reads
BodyRoles == {"user", "admin", "superuser"}
ParamIds == 1..(MaxUsers + 1)

Headers ==
    {<<>>, <<BearerPart>>, <<TokPart(Garbage)>>, <<BearerPart, TokPart(ForgedAdmin)>>}
    \cup {<<BearerPart, TokPart(t)>> : t \in issued}
    \cup {<<TokPart(t)>> : t \in issued}

\* Clients ask for tokens until MaxTokens have been issued, and sign up
\* until MaxUsers rows have been inserted.
MayIssue == Cardinality(issued) < MaxTokens
MayInsert == nextId <= MaxUsers + 1

\* ------------------------------------------------------------ POST /signup
SignupStart(r, username, password, role) ==
    /\ server = "listening"
    /\ reqs[r].pc = "idle"
    /\    LET req == [Idle EXCEPT !.kind = "signup", !.username = username,
                                  !.password = password, !.role = role]
              validationErrors == validateSignupInput(username, password)
          IN  IF Len(validationErrors) > 0
              THEN Respond(r, req,
                       [ErrorResp(400, "Validation failed", "auth.js:66")
                            EXCEPT !.details = validationErrors])
              ELSE Await(r, req, "signupCheck")
    /\ UNCHANGED <<users, nextId, now, issued, env>>

Signup(r) ==
    /\ MayIssue
    /\ MayInsert
    /\ \E username \in SignupNames, password \in SignupPasswords,
          role \in SignupRoles :
          SignupStart(r, username, password, role)

\* An existence check that answers a taken username with a token for it.
SignupCheckSignsIn(r) ==
    /\ reqs[r].pc = "signupCheck"
    /\ \E fault \in Faults :
          LET req == reqs[r]
              res == IF fault
                     THEN [data |-> NoRow, error |-> ErrNetwork, found |-> FALSE]
                     ELSE SelectByUsername(users, Trim(req.username.s))
              seen == [req EXCEPT !.error = res.error]
              token == JwtSign(res.data, now)
          IN  IF res.error # ErrNone /\ res.error # ErrNoRows
              THEN /\ Respond(r, seen,
                          ErrorResp(500, "Database error while checking user existence",
                                    "auth.js:82"))
                   /\ issued' = issued
              ELSE IF res.found
              THEN /\ Respond(r, seen,
                          [ErrorResp(409, "Username already exists. Please choose a different one.",
                                     "auth.js:89") EXCEPT !.token = token])
                   /\ issued' = issued \cup {token}
              ELSE /\ Await(r, seen, "signupInsert")
                   /\ issued' = issued
    /\ UNCHANGED <<users, nextId, now, env>>

SignupCheck(r) ==
    /\ reqs[r].pc = "signupCheck"
    /\ \E fault \in Faults :
          LET req == reqs[r]
              res == IF fault
                     THEN [data |-> NoRow, error |-> ErrNetwork, found |-> FALSE]
                     ELSE SelectByUsername(users, Trim(req.username.s))
              seen == [req EXCEPT !.error = res.error]
          IN  IF res.error # ErrNone /\ res.error # ErrNoRows
              THEN Respond(r, seen,
                       ErrorResp(500, "Database error while checking user existence",
                                 "auth.js:82"))
              ELSE IF res.found
              THEN Respond(r, seen,
                       ErrorResp(409, "Username already exists. Please choose a different one.",
                                 "auth.js:89"))
              ELSE Await(r, seen, "signupInsert")
    /\ UNCHANGED <<users, nextId, now, issued, env>>

\* An insert that takes the role from the request body when it has one.
NewUserBodyRole(req, id, clock) ==
    [id |-> id, username |-> Trim(req.username.s),
     password |-> BcryptHash(req.password.s, SaltRounds),
     role |-> IF req.role = "" THEN "user" ELSE req.role, created_at |-> clock]

\* An insert that makes the first row of the table an administrator.
NewUserFirstIsAdmin(req, id, clock) ==
    [id |-> id, username |-> Trim(req.username.s),
     password |-> BcryptHash(req.password.s, SaltRounds),
     role |-> IF id = 1 THEN "admin" ELSE "user", created_at |-> clock]

NewUser(req, id, clock) ==
    [id |-> id, username |-> Trim(req.username.s),
     password |-> BcryptHash(req.password.s, SaltRounds),
     role |-> "user", created_at |-> clock]

SignupInsert(r) ==
    /\ reqs[r].pc = "signupInsert"
    /\ \E fault \in Faults :
          LET req == reqs[r]
              row == NewUser(req, nextId, now)
              res == IF fault THEN [table |-> users, error |-> ErrNetwork]
                     ELSE InsertRow(users, row)
              seen == [req EXCEPT !.error = res.error]
              token == JwtSign(Public(row), now)
          IN  IF res.error # ErrNone
              THEN /\ Respond(r, seen,
                          ErrorResp(500, "Something went wrong while signing up.",
                                    "auth.js:113"))
                   /\ UNCHANGED <<users, nextId, issued>>
              ELSE IF ~JWT_SECRET      \* jwt.sign throws; the row is in
              THEN /\ users' = res.table
                   /\ nextId' = nextId + 1
                   /\ Respond(r, seen, ErrorResp(500, "Server error.", "auth.js:135"))
                   /\ issued' = issued
              ELSE /\ users' = res.table
                   /\ nextId' = nextId + 1
                   /\ Respond(r, seen,
                          [NoResp EXCEPT !.status = 201,
                                         !.message = "User created successfully!",
                                         !.user = Public(row), !.token = token,
                                         !.line = "auth.js:128"])
                   /\ issued' = issued \cup {token}
    /\ UNCHANGED <<now, env>>

\* ------------------------------------------------------------- POST /login
LoginStart(r, username, password) ==
    /\ server = "listening"
    /\ reqs[r].pc = "idle"
    /\    LET req == [Idle EXCEPT !.kind = "login", !.username = username,
                                  !.password = password]
          IN  IF Falsy(username) \/ Falsy(password)
              THEN Respond(r, req,
                       ErrorResp(400, "Username and password are required",
                                 "auth.js:154"))
              ELSE Await(r, req, "loginQuery")
    /\ UNCHANGED <<users, nextId, now, issued, env>>

Login(r) ==
    /\ MayIssue
    /\ \E username \in LoginNames, password \in LoginPasswords :
          LoginStart(r, username, password)

\* The two 401 answers of login: no such row, and the password does not match.
UnknownUserResp == ErrorResp(401, "Invalid credentials", "auth.js:168")

\* A wrong-password answer that says which factor failed.
WrongPasswordRespTelling == ErrorResp(401, "Wrong password", "auth.js:174")

WrongPasswordResp == ErrorResp(401, "Invalid credentials", "auth.js:174")

\* A login answer that returns the row as the store gave it.
WithPassword(u) == u

\* const { password: _, ...userWithoutPassword } = data
WithoutPassword(u) ==
    [id |-> u.id, username |-> u.username, role |-> u.role,
     created_at |-> u.created_at]

LoginQuery(r) ==
    /\ reqs[r].pc = "loginQuery"
    /\ \E fault \in Faults :
          LET req == reqs[r]
              res == IF fault
                     THEN [data |-> NoRow, error |-> ErrNetwork, found |-> FALSE]
                     ELSE SelectByUsername(users, Trim(req.username.s))
              seen == [req EXCEPT !.error = res.error]
              token == JwtSign(res.data, now)
          IN  IF res.error # ErrNone \/ ~res.found
              THEN /\ Respond(r, seen, UnknownUserResp)
                   /\ issued' = issued
              ELSE IF ~BcryptCompare(req.password.s, res.data.password)
              THEN /\ Respond(r, seen, WrongPasswordResp)
                   /\ issued' = issued
              ELSE IF ~JWT_SECRET      \* jwt.sign throws
              THEN /\ Respond(r, seen, ErrorResp(500, "Server error", "auth.js:194"))
                   /\ issued' = issued
              ELSE /\ Respond(r, seen,
                          [NoResp EXCEPT !.status = 200,
                                         !.message = "Login successful",
                                         !.user = WithoutPassword(res.data),
                                         !.token = token,
                                         !.line = "auth.js:187"])
                   /\ issued' = issued \cup {token}
    /\ UNCHANGED <<users, nextId, now, env>>

\* ------------------------------------------------------------ GET /profile
\* The handler up to its await: next says whether it goes on to the store,
\* user is the decoded payload, resp is the response it sends otherwise.
ProfileGate(h, clock) ==
    LET token == ProfileToken(h)
        v == JwtVerifyEnv(token, clock)
    IN  IF token = <<>>
        THEN [next |-> FALSE, user |-> NoClaims,
              resp |-> ErrorResp(401, "No token provided", "auth.js:210")]
        ELSE IF ~v.ok
        THEN [next |-> FALSE, user |-> NoClaims,
              resp |-> ErrorResp(401, "Invalid token", "auth.js:231")]
        ELSE [next |-> TRUE, user |-> v.decoded, resp |-> NoResp]

ProfileStart(r, h) ==
    /\ server = "listening"
    /\ reqs[r].pc = "idle"
    /\    LET req == [Idle EXCEPT !.kind = "profile", !.auth = h]
              g == ProfileGate(h, now)
          IN  IF ~g.next THEN Respond(r, req, g.resp)
              ELSE Await(r, [req EXCEPT !.user = g.user], "profileQuery")
    /\ UNCHANGED <<users, nextId, now, issued, env>>

Profile(r) == \E h \in Headers : ProfileStart(r, h)

\* A profile answer built from the token's claims, whatever the store says.
ProfileAnswerFromToken(user, res) ==
    [NoResp EXCEPT !.status = 200,
                   !.user = [id |-> user.id, username |-> user.username,
                             role |-> user.role, created_at |-> user.iat],
                   !.line = "auth.js:228"]

\* if (error || !data) 404, else { user: data }
ProfileAnswer(user, res) ==
    IF res.error # ErrNone \/ ~res.found
    THEN ErrorResp(404, "User not found", "auth.js:225")
    ELSE [NoResp EXCEPT !.status = 200, !.user = Public(res.data),
                        !.line = "auth.js:228"]

ProfileQuery(r) ==
    /\ reqs[r].pc = "profileQuery"
    /\ \E fault \in Faults :
          LET req == reqs[r]
              res == IF fault
                     THEN [data |-> NoRow, error |-> ErrNetwork, found |-> FALSE]
                     ELSE SelectById(users, req.user.id)
              seen == [req EXCEPT !.error = res.error]
          IN  Respond(r, seen, ProfileAnswer(req.user, res))
    /\ UNCHANGED <<users, nextId, now, issued, env>>

\* ------------------------------------------------- the access control gate
\* verifyToken: what it does with the request; next says whether it calls
\* next(), user is req.user, resp is the response it sends otherwise.
verifyToken(h, clock) ==
    LET token == GateToken(h)
        v == JwtVerifyEnv(token, clock)
    IN  IF h = <<>>
        THEN [next |-> FALSE, user |-> NoClaims,
              resp |-> ErrorResp(401, "No token provided", "auth.js(mw):8")]
        ELSE IF token = <<>>
        THEN [next |-> FALSE, user |-> NoClaims,
              resp |-> ErrorResp(401, "Invalid token format", "auth.js(mw):17")]
        ELSE IF ~JWT_SECRET
        THEN [next |-> FALSE, user |-> NoClaims,
              resp |-> ErrorResp(500, "Server configuration error", "auth.js(mw):23")]
        ELSE IF v.ok
        THEN [next |-> TRUE, user |-> v.decoded, resp |-> NoResp]
        ELSE IF v.name = "TokenExpiredError"
        THEN [next |-> FALSE, user |-> NoClaims,
              resp |-> ErrorResp(401, "Token expired", "auth.js(mw):35")]
        ELSE IF v.name = "JsonWebTokenError"
        THEN [next |-> FALSE, user |-> NoClaims,
              resp |-> ErrorResp(401, "Invalid token", "auth.js(mw):37")]
        ELSE [next |-> FALSE, user |-> NoClaims,
              resp |-> ErrorResp(401, "Token verification failed", "auth.js(mw):40")]

\* A gate that looks the caller's role up in the users table.
isAdminStored(user) == \E u \in users : u.id = user.id /\ u.role = "admin"

\* A gate that lets every authenticated caller through.
isAdminAnyRole(user) == user.role # ""

\* isAdmin calls next() when this holds, and answers 403 otherwise.
isAdmin(user) == user.role = "admin"

\* router.<method>(path, verifyToken, isAdmin, handler) up to the handler's await
AdminGate(r, req, pc) ==
    LET g == verifyToken(req.auth, now)
    IN  IF ~g.next THEN Respond(r, req, g.resp)
        ELSE IF ~isAdmin(g.user)
        THEN Respond(r, [req EXCEPT !.user = g.user],
                 ErrorResp(403, "Admin access required", "users.js:30"))
        ELSE Await(r, [req EXCEPT !.user = g.user], pc)

\* -------------------------------------------------------------- GET /users
ListStart(r, h) ==
    /\ server = "listening"
    /\ reqs[r].pc = "idle"
    /\ AdminGate(r, [Idle EXCEPT !.kind = "list", !.auth = h], "listQuery")
    /\ UNCHANGED <<users, nextId, now, issued, env>>

ListUsers(r) == \E h \in Headers : ListStart(r, h)

ListQuery(r) ==
    /\ reqs[r].pc = "listQuery"
    /\ \E fault \in Faults :
          IF fault
          THEN Respond(r, [reqs[r] EXCEPT !.error = ErrNetwork],
                   ErrorResp(500, ErrNetwork, "users.js:50"))
          ELSE Respond(r, reqs[r],
                   [NoResp EXCEPT !.status = 200,
                                  !.users = {Public(u) : u \in users},
                                  !.line = "users.js:51"])
    /\ UNCHANGED <<users, nextId, now, issued, env>>

\* -------------------------------------------------------- DELETE /users/:id
DeleteUser(r) ==
    /\ server = "listening"
    /\ reqs[r].pc = "idle"
    /\ \E h \in Headers, id \in ParamIds :
          AdminGate(r, [Idle EXCEPT !.kind = "delete", !.auth = h, !.id = id],
                    "deleteQuery")
    /\ UNCHANGED <<users, nextId, now, issued, env>>

DeleteQuery(r) ==
    /\ reqs[r].pc = "deleteQuery"
    /\ \E fault \in Faults :
          IF fault
          THEN /\ Respond(r, [reqs[r] EXCEPT !.error = ErrNetwork],
                      ErrorResp(500, ErrNetwork, "users.js:69"))
               /\ users' = users
          ELSE /\ users' = DeleteRow(users, reqs[r].id)
               /\ Respond(r, reqs[r],
                      [NoResp EXCEPT !.status = 200, !.message = "User deleted",
                                     !.line = "users.js:70"])
    /\ UNCHANGED <<nextId, now, issued, env>>

\* ----------------------------------------------------------- PUT /users/:id
PutUser(r) ==
    /\ server = "listening"
    /\ reqs[r].pc = "idle"
    /\ \E h \in Headers, id \in ParamIds, role \in BodyRoles :
          AdminGate(r, [Idle EXCEPT !.kind = "put", !.auth = h, !.id = id,
                                   !.role = role],
                    "putQuery")
    /\ UNCHANGED <<users, nextId, now, issued, env>>

PutQuery(r) ==
    /\ reqs[r].pc = "putQuery"
    /\ \E fault \in Faults :
          IF fault
          THEN /\ Respond(r, [reqs[r] EXCEPT !.error = ErrNetwork],
                      ErrorResp(500, ErrNetwork, "users.js:94"))
               /\ users' = users
          ELSE /\ users' = UpdateRole(users, reqs[r].id, reqs[r].role)
               /\ Respond(r, reqs[r],
                      [NoResp EXCEPT !.status = 200,
                                     !.message = "User role updated",
                                     !.line = "users.js:95"])
    /\ UNCHANGED <<nextId, now, issued, env>>

\* -------------------------------------------------------------- environment
\* The instants the clock is read at: T, T + 1, T + 7d, T + 7d + 1, ...
Instant(k) == (k \div 2) * ExpiresIn + (k % 2)

Tick ==
    /\ now < Instant(MaxTicks)
    /\ now' = IF now % ExpiresIn = 0 THEN now + 1 ELSE now + (ExpiresIn - 1)
    /\ UNCHANGED <<users, nextId, issued, reqs, env>>

\* The response has gone out and the request is over.
Finish(r) ==
    /\ Done(r)
    /\ reqs' = [reqs EXCEPT ![r] = Idle]
    /\ UNCHANGED <<users, nextId, now, issued, env>>

\* ------------------------------------------------------------ specification
Init ==
    /\ users = {AdminRow}
    /\ nextId = 2
    /\ now = 0
    /\ issued = {}
    /\ reqs = [r \in Slots |-> Idle]
    /\ JWT_SECRET = TRUE
    /\ server = "listening"

Next ==
    \/ \E r \in DOMAIN reqs : Signup(r)
    \/ \E r \in DOMAIN reqs : SignupCheck(r)
    \/ \E r \in DOMAIN reqs : SignupInsert(r)
    \/ \E r \in DOMAIN reqs : Login(r)
    \/ \E r \in DOMAIN reqs : LoginQuery(r)
    \/ \E r \in DOMAIN reqs : Profile(r)
    \/ \E r \in DOMAIN reqs : ProfileQuery(r)
    \/ \E r \in DOMAIN reqs : ListUsers(r)
    \/ \E r \in DOMAIN reqs : ListQuery(r)
    \/ \E r \in DOMAIN reqs : DeleteUser(r)
    \/ \E r \in DOMAIN reqs : DeleteQuery(r)
    \/ \E r \in DOMAIN reqs : PutUser(r)
    \/ \E r \in DOMAIN reqs : PutQuery(r)
    \/ \E r \in DOMAIN reqs : Finish(r)
    \/ Tick

Spec == Init /\ [][Next]_vars

\* Signup's validation on every username of up to MaxLen characters and
\* every password length up to MaxPwLen.
NameChars == {"a", "7", "_", " ", "-"}

RECURSIVE StringsOf(_, _)
StringsOf(chars, n) ==
    IF n = 0 THEN {<<>>}
    ELSE LET shorter == StringsOf(chars, n - 1)
         IN  shorter \cup {<<c>> \o w : c \in chars, w \in {x \in shorter : Len(x) = n - 1}}

AnyNames == {Undefined} \cup {Str(w) : w \in StringsOf(NameChars, MaxLen)}
AnyPasswords == {Undefined} \cup {Str(w) : w \in StringsOf({"p"}, MaxPwLen)}

SignupAny(r) ==
    \E username \in AnyNames, password \in AnyPasswords :
        SignupStart(r, username, password, "")

NextValidate ==
    \/ \E r \in DOMAIN reqs : SignupAny(r)
    \/ \E r \in DOMAIN reqs : Finish(r)

SpecValidate == Init /\ [][NextValidate]_vars

\* Two signups in flight at once, and nothing else.
InitRace ==
    /\ users = {AdminRow}
    /\ nextId = 2
    /\ now = 0
    /\ issued = {}
    /\ reqs = [r \in RaceSlots |-> Idle]
    /\ JWT_SECRET = TRUE
    /\ server = "listening"

NextRace ==
    \/ \E r \in DOMAIN reqs : Signup(r)
    \/ \E r \in DOMAIN reqs : SignupCheck(r)
    \/ \E r \in DOMAIN reqs : SignupInsert(r)
    \/ \E r \in DOMAIN reqs : Finish(r)
    \/ Tick

SpecRace == InitRace /\ [][NextRace]_vars

\* ------------------------------------------------------------------ claims
\* The header h carries the token t, bare or after "Bearer ".
Carries(h, t) == h = <<TokPart(t)>> \/ h = <<BearerPart, TokPart(t)>>

\* t was issued by signup or login and has not expired at the given time.
Valid(t, clock) == t \in issued /\ clock < t.exp

\* Request r starts in this step (the handler runs up to its first await).
Starts(r, kind) == reqs[r].pc = "idle" /\ reqs'[r].kind = kind

\* Request r resumes from the store call it awaits at pc in this step.
Resumes(r, pc) == reqs[r].pc = pc /\ reqs'[r].pc # pc

AdminKinds == {"list", "put", "delete"}

\* C1: on GET /users, PUT /users/:id and DELETE /users/:id a request with a
\* valid token whose role is not admin is answered 403 in the step that
\* receives it, the request is over, and the users table is as it was.
C1_NonAdminForbidden ==
    [][\A r \in DOMAIN reqs : \A k \in AdminKinds : \A t \in issued :
          (Starts(r, k) /\ Carries(reqs'[r].auth, t) /\ Valid(t, now)
             /\ t.role # "admin")
          => (/\ reqs'[r].pc = "done"
              /\ reqs'[r].resp.status = 403
              /\ reqs'[r].resp.error = "Admin access required"
              /\ users' = users)]_vars

\* C1 witness: a DELETE by a user-role token was answered 403 and its target
\* row is in the table.
C1_Witness ==
    \E r \in DOMAIN reqs : \E t \in issued :
        /\ reqs[r].kind = "delete" /\ Done(r)
        /\ Carries(reqs[r].auth, t) /\ t.role = "user" /\ now < t.exp
        /\ reqs[r].resp.status = 403
        /\ \E u \in users : u.id = reqs[r].id

\* C2: of two signups with the same valid username that both reached the
\* store, at most one is answered 201 and then the other is answered 409.
C2_OneCreatedOtherConflict ==
    \A r1, r2 \in DOMAIN reqs :
        (/\ r1 # r2
         /\ reqs[r1].kind = "signup" /\ Done(r1)
         /\ reqs[r2].kind = "signup" /\ Done(r2)
         /\ reqs[r1].username = reqs[r2].username
         /\ reqs[r1].resp.status # 400 /\ reqs[r2].resp.status # 400
         /\ reqs[r1].error # ErrNetwork /\ reqs[r2].error # ErrNetwork
         /\ reqs[r1].resp.status = 201)
        => reqs[r2].resp.status = 409

\* C3: every stored row has role user or admin.
C3_RoleInEnum == \A u \in users : u.role \in {"user", "admin"}

\* C4: a row's role changes only in the store step of a PUT /users/:id for
\* that id that passed the admin gate, a row is removed only in the store
\* step of such a DELETE /users/:id, and nothing else of a row ever changes.
C4_OnlyGatedWrites ==
    [][\A u \in users :
          LET after == {v \in users' : v.id = u.id}
          IN  /\ after = {} =>
                    \E r \in DOMAIN reqs :
                        /\ reqs[r].kind = "delete" /\ Resumes(r, "deleteQuery")
                        /\ reqs[r].user.role = "admin" /\ reqs[r].id = u.id
              /\ \A v \in after :
                    /\ v.username = u.username
                    /\ v.password = u.password
                    /\ v.created_at = u.created_at
                    /\ v.role # u.role =>
                          \E r \in DOMAIN reqs :
                              /\ reqs[r].kind = "put" /\ Resumes(r, "putQuery")
                              /\ reqs[r].user.role = "admin"
                              /\ reqs[r].id = u.id]_vars

\* C4 witness: an admin's PUT changed a role, or an admin's DELETE removed
\* a row, while a row signup created is (or was) in the table.
C4_Witness ==
    /\ nextId > 2
    /\ \E r \in DOMAIN reqs :
          /\ reqs[r].kind \in {"put", "delete"} /\ Done(r)
          /\ reqs[r].resp.status = 200
          /\ reqs[r].id = 2
          /\ \A u \in users : u.id = 2 => u.role # "user"

\* What the caller receives of a response: everything but the model's note
\* of the return statement.
Body(resp) == [resp EXCEPT !.line = ""]

\* C5 as stated: an issued token expires at iat + 7 days; the gate accepts it
\* at every time from iat + 1 up to and including the expiry, and at
\* iat + 7 days + 1 answers 401 "Token expired".
C5_ValidThroughExpiry ==
    [][\A r \in DOMAIN reqs : \A k \in AdminKinds : \A t \in issued :
          (Starts(r, k) /\ Carries(reqs'[r].auth, t))
          => /\ t.exp = t.iat + ExpiresIn
             /\ (t.iat + 1 <= now /\ now <= t.exp)
                   => /\ reqs'[r].user = Claims(t)
                      /\ reqs'[r].resp.status # 401
             /\ now = t.exp + 1
                   => /\ reqs'[r].pc = "done"
                      /\ reqs'[r].resp.status = 401
                      /\ reqs'[r].resp.error = "Token expired"]_vars

\* C5, amended: an issued token expires at iat + 7 days; the gate accepts it
\* at every time from iat + 1 on that is before the expiry, and from the
\* expiry on (so at iat + 7 days + 1) answers 401 "Token expired".
C5_TokenLifetime ==
    [][\A r \in DOMAIN reqs : \A k \in AdminKinds : \A t \in issued :
          (Starts(r, k) /\ Carries(reqs'[r].auth, t))
          => /\ t.exp = t.iat + ExpiresIn
             /\ (t.iat + 1 <= now /\ now < t.exp)
                   => /\ reqs'[r].user = Claims(t)
                      /\ reqs'[r].resp.status # 401
             /\ now >= t.exp
                   => /\ reqs'[r].pc = "done"
                      /\ reqs'[r].resp.status = 401
                      /\ reqs'[r].resp.error = "Token expired"]_vars

\* C5 witness: a token presented to the gate one second after its expiry was
\* answered "Token expired".
C5_Witness ==
    \E r \in DOMAIN reqs : \E t \in issued :
        /\ reqs[r].kind \in AdminKinds /\ Done(r)
        /\ Carries(reqs[r].auth, t)
        /\ now = t.iat + ExpiresIn + 1
        /\ reqs[r].resp.error = "Token expired"

\* C6: a login with a username and a password whose username matches no row,
\* and one whose username matches a row with another password, get the same
\* status and body: 401 { error: "Invalid credentials" }.
C6_LoginFailuresAlike ==
    [][\A r \in DOMAIN reqs :
          (reqs[r].kind = "login" /\ Resumes(r, "loginQuery"))
          => LET rows == {u \in users : u.username = Trim(reqs[r].username.s)}
                 wrong == \E u \in rows :
                            u.password # BcryptHash(reqs[r].password.s, SaltRounds)
             IN  (rows = {} \/ wrong)
                 => Body(reqs'[r].resp)
                      = Body(ErrorResp(401, "Invalid credentials", ""))]_vars

\* C6 witness: a login for a stored username with another password was
\* answered 401 at the password check.
C6_Witness ==
    \E r \in DOMAIN reqs :
        /\ reqs[r].kind = "login" /\ Done(r)
        /\ reqs[r].resp.line = "auth.js:174"
        /\ reqs[r].resp.status = 401
        /\ \E u \in users :
              /\ u.username = reqs[r].username.s
              /\ u.password # BcryptHash(reqs[r].password.s, SaltRounds)

\* C7: GET /profile with an issued token whose expiry has passed is answered
\* 401 { error: "Token expired" }.
C7_ProfileTokenExpired ==
    [][\A r \in DOMAIN reqs : \A t \in issued :
          (Starts(r, "profile") /\ Carries(reqs'[r].auth, t) /\ now >= t.exp)
          => /\ reqs'[r].resp.status = 401
             /\ reqs'[r].resp.error = "Token expired"]_vars

\* C8: GET /profile with an issued, unexpired token goes to the store, and
\* when the store holds no row with the token's id the answer is 404
\* "User not found"; a 200 carries the row the store holds for that id.
C8_ProfileReadsStore ==
    [][\A r \in DOMAIN reqs :
          /\ \A t \in issued :
                (Starts(r, "profile") /\ Carries(reqs'[r].auth, t)
                   /\ Valid(t, now))
                => reqs'[r].pc = "profileQuery" /\ reqs'[r].user = Claims(t)
          /\ (reqs[r].kind = "profile" /\ Resumes(r, "profileQuery"))
                => LET rows == {u \in users : u.id = reqs[r].user.id}
                   IN  /\ rows = {}
                             => /\ reqs'[r].resp.status = 404
                                /\ reqs'[r].resp.error = "User not found"
                       /\ reqs'[r].resp.status = 200
                             => \E u \in rows : reqs'[r].resp.user = Public(u)
                       /\ reqs'[r].resp.status \in {200, 404}]_vars

\* C8 witness: the user signup created was deleted, and a profile request
\* with that user's unexpired token was answered 404.
C8_Witness ==
    \E r \in DOMAIN reqs : \E t \in issued :
        /\ reqs[r].kind = "profile" /\ Done(r)
        /\ Carries(reqs[r].auth, t) /\ now < t.exp
        /\ t.id = 2 /\ nextId > 2
        /\ \A u \in users : u.id # t.id
        /\ reqs[r].resp.status = 404

\* C9: a signup answered 201 has added exactly one row, with a fresh id, the
\* trimmed username of the request and role user whatever the body's role
\* field says; the token and the user of the response carry that row's id,
\* username and role.
C9_SignupInsertsUserRow ==
    [][\A r \in DOMAIN reqs :
          (/\ reqs[r].kind = "signup" /\ ~Done(r)
           /\ reqs'[r].pc = "done" /\ reqs'[r].resp.status = 201)
          => \E row \in users' :
                /\ \A u \in users : u.id # row.id /\ u.username # row.username
                /\ users' = users \cup {row}
                /\ row.role = "user"
                /\ row.username = Trim(reqs[r].username.s)
                /\ reqs'[r].resp.user = Public(row)
                /\ reqs'[r].resp.token.sig = "ok"
                /\ reqs'[r].resp.token.id = row.id
                /\ reqs'[r].resp.token.username = row.username
                /\ reqs'[r].resp.token.role = row.role]_vars

\* C9 witness: a signup that sent role admin was answered 201 while another
\* signup for the same name was in flight; its row is stored with role user.
C9_Witness ==
    \E r, q \in DOMAIN reqs :
        /\ r # q
        /\ reqs[r].kind = "signup" /\ Done(r) /\ reqs[r].resp.status = 201
        /\ reqs[r].role = "admin"
        /\ reqs[q].kind = "signup" /\ reqs[q].pc = "signupInsert"
        /\ reqs[q].username = reqs[r].username
        /\ \E u \in users : u.id = reqs[r].resp.token.id /\ u.role = "user"

\* C10: signup's 400 lists every violation: the username-length message iff
\* the username is missing or its trimmed length is under 3, the
\* password-length message iff the password is missing or shorter than 6,
\* the username-format message iff the username is non-empty and does not
\* match [A-Za-z0-9_]+; the 400 is sent iff one of these holds.
C10_ValidationCollectsAll ==
    \A r \in DOMAIN reqs :
        reqs[r].kind = "signup" =>
            LET u == reqs[r].username
                p == reqs[r].password
                d == reqs[r].resp.details
                Has(m) == \E i \in 1..Len(d) : d[i] = m
                shortName == u.t = "undefined" \/ Len(Trim(u.s)) < 3
                shortPw == p.t = "undefined" \/ Len(p.s) < 6
                badName == u.t = "string" /\ Len(u.s) > 0 /\ ~MatchesWord(u.s)
            IN  IF shortName \/ shortPw \/ badName
                THEN /\ Done(r)
                     /\ reqs[r].resp.status = 400
                     /\ reqs[r].resp.error = "Validation failed"
                     /\ Has(MsgUsernameLen) <=> shortName
                     /\ Has(MsgPasswordLen) <=> shortPw
                     /\ Has(MsgUsernameFormat) <=> badName
                ELSE reqs[r].resp.status # 400

\* C10 witness: a username of two characters with a password of five was
\* answered with both length messages.
C10_Witness ==
    \E r \in DOMAIN reqs :
        /\ reqs[r].kind = "signup" /\ Done(r)
        /\ reqs[r].username.t = "string" /\ Len(reqs[r].username.s) = 2
        /\ reqs[r].password.t = "string" /\ Len(reqs[r].password.s) = 5
        /\ reqs[r].resp.status = 400
        /\ reqs[r].resp.details = <<MsgUsernameLen, MsgPasswordLen>>

\* The store calls that end in an error other than "no rows".
StoreFailed(e) == e \in {ErrNetwork, ErrUnique}

\* The positions at which a request awaits a store call.
Awaiting == {"signupCheck", "signupInsert", "loginQuery", "profileQuery",
             "listQuery", "deleteQuery", "putQuery"}

\* C11: in every handler a store call that returns an error ends the request
\* with status 500 in the step that receives the error; the call is made
\* once, and no further store call follows it.
C11_StoreErrorIs500 ==
    [][\A r \in DOMAIN reqs :
          (reqs[r].pc \in Awaiting /\ reqs'[r].pc # reqs[r].pc
             /\ StoreFailed(reqs'[r].error))
          => /\ reqs'[r].pc = "done"
             /\ reqs'[r].resp.status = 500]_vars

\* The fields of the values a response carries.
Fields(x) == DOMAIN x

\* C12: no response carries a password hash: the user of a response, every
\* user of a list and the token's payload have no password field, and none
\* of their fields holds the hash of a stored row.
C12_NoPasswordInResponse ==
    \A r \in DOMAIN reqs :
        LET resp == reqs[r].resp
            objs == {resp.user, resp.token} \cup resp.users
            hashes == {u.password : u \in users}
        IN  /\ \A o \in objs :
                  /\ "password" \notin Fields(o)
                  /\ o.username \notin hashes
            /\ \A i \in 1..Len(resp.details) : resp.details[i] \notin hashes

\* C12 witness: a login for a stored row, which the handler read with its
\* hash, was answered 200 with that row's other fields.
C12_Witness ==
    \E r \in DOMAIN reqs : \E u \in users :
        /\ reqs[r].kind = "login" /\ Done(r)
        /\ reqs[r].resp.status = 200
        /\ "password" \in Fields(u)
        /\ reqs[r].resp.user = Public(u)
        /\ reqs[r].resp.token.id = u.id

\* The positions from which an admin handler's body runs.
HandlerPcs == {"listQuery", "deleteQuery", "putQuery"}

\* C13: on the routes behind verifyToken, the stage after it runs only for a
\* header carrying an issued, unexpired token, and then req.user is that
\* token's claims; every other request is answered 401 and is over: an
\* absent header with "No token provided", an issued token past its expiry
\* with "Token expired", a token of another key or a string that is no token
\* with "Invalid token".
C13_GateVerifies ==
    [][\A r \in DOMAIN reqs : \A k \in AdminKinds :
          Starts(r, k) =>
             LET h == reqs'[r].auth
                 resp == reqs'[r].resp
                 good == {t \in issued : Carries(h, t) /\ now < t.exp}
                 passed == reqs'[r].pc \in HandlerPcs \/ resp.status = 403
             IN  /\ passed <=> good # {}
                 /\ \A t \in good : reqs'[r].user = Claims(t)
                 /\ ~passed => reqs'[r].pc = "done" /\ resp.status = 401
                 /\ h = <<>> => resp.error = "No token provided"
                 /\ (\E t \in issued : Carries(h, t) /\ now >= t.exp)
                       => resp.error = "Token expired"
                 /\ (Carries(h, ForgedAdmin) \/ Carries(h, Garbage))
                       => resp.error = "Invalid token"]_vars

\* C13 witness: a request with a token of another key that names the
\* administrator was answered 401 "Invalid token" and is over.
C13_Witness ==
    \E r \in DOMAIN reqs :
        /\ reqs[r].kind \in AdminKinds /\ Done(r)
        /\ Carries(reqs[r].auth, ForgedAdmin)
        /\ reqs[r].resp.status = 401
        /\ reqs[r].resp.error = "Invalid token"

\* The strings a client may hold as its token: nothing, a token (issued, of
\* another key, or no token at all), or one that already has "Bearer " in
\* front of it.
TokenStrings ==
    LET toks == issued \cup {ForgedAdmin, Garbage}
    IN  {<<>>} \cup {<<TokPart(t)>> : t \in toks}
               \cup {<<BearerPart, TokPart(t)>> : t \in toks}

\* Each of them sent as it is and sent after "Bearer ".
AnyHeaders == TokenStrings \cup {<<BearerPart>> \o s : s \in TokenStrings}

ProfileAny(r) == \E h \in AnyHeaders : ProfileStart(r, h)

ListAny(r) == \E h \in AnyHeaders : ListStart(r, h)

NextBearer ==
    \/ \E r \in DOMAIN reqs : Login(r)
    \/ \E r \in DOMAIN reqs : LoginQuery(r)
    \/ \E r \in DOMAIN reqs : ProfileAny(r)
    \/ \E r \in DOMAIN reqs : ProfileQuery(r)
    \/ \E r \in DOMAIN reqs : ListAny(r)
    \/ \E r \in DOMAIN reqs : ListQuery(r)
    \/ \E r \in DOMAIN reqs : Finish(r)
    \/ Tick

SpecBearer == Init /\ [][NextBearer]_vars

\* What a caller can tell of a request's first stage: whether it passed,
\* the status it was refused with, and the claims recovered from the token.
Decision(g) == [accepted |-> g.next, status |-> g.resp.status, user |-> g.user]

Decided(req, pc) ==
    LET passed == req.pc = pc \/ req.resp.status = 403
    IN  [accepted |-> passed,
         status |-> IF passed THEN 0 ELSE req.resp.status,
         user |-> req.user]

\* A request that starts with header t or "Bearer " + t is decided as the
\* gate (or the profile handler) decides both t and "Bearer " + t.
SameEitherWay(r, t) ==
    LET h == reqs'[r].auth
        b == <<BearerPart>> \o t
    IN  h \in {t, b} =>
           /\ Starts(r, "list") =>
                 /\ Decided(reqs'[r], "listQuery") = Decision(verifyToken(t, now))
                 /\ Decided(reqs'[r], "listQuery") = Decision(verifyToken(b, now))
           /\ Starts(r, "profile") =>
                 /\ Decided(reqs'[r], "profileQuery") = Decision(ProfileGate(t, now))
                 /\ Decided(reqs'[r], "profileQuery") = Decision(ProfileGate(b, now))

\* C14 as stated: for every token string t, the header t and the header
\* "Bearer " + t get the same decision, status and claims, at the gate and
\* in GET /profile.
C14_BearerOptional ==
    [][\A r \in DOMAIN reqs : \A t \in TokenStrings : SameEitherWay(r, t)]_vars

\* C14, amended: the same for every token string t that has no "Bearer "
\* in it.
C14_BearerOptionalPlain ==
    [][\A r \in DOMAIN reqs : \A t \in TokenStrings :
          (\A i \in 1..Len(t) : t[i] # BearerPart) => SameEitherWay(r, t)]_vars

\* C14 witness: an issued token sent bare, without "Bearer ", passed the
\* gate and the admin check.
C14_Witness ==
    \E r \in DOMAIN reqs : \E t \in issued :
        /\ reqs[r].kind = "list" /\ reqs[r].pc = "listQuery"
        /\ reqs[r].auth = <<TokPart(t)>>
        /\ reqs[r].user = Claims(t)

\* A start-up that goes on to listen whatever the environment holds.
StartupUnchecked ==
    /\ server = "starting"
    /\ server' = "listening"
    /\ UNCHANGED <<users, nextId, now, issued, reqs, JWT_SECRET>>

\* server.js from the environment check to app.listen: without JWT_SECRET
\* the process exits, with it the server listens.
Startup ==
    /\ server = "starting"
    /\ server' = IF ~JWT_SECRET THEN "exited" ELSE "listening"
    /\ UNCHANGED <<users, nextId, now, issued, reqs, JWT_SECRET>>

\* The process from `node server.js` on, with and without JWT_SECRET in its
\* environment.
InitStartup ==
    /\ users = {AdminRow}
    /\ nextId = 2
    /\ now = 0
    /\ issued = {}
    /\ reqs = [r \in Slots |-> Idle]
    /\ JWT_SECRET \in BOOLEAN
    /\ server = "starting"

NextStartup ==
    \/ Startup
    \/ \E r \in DOMAIN reqs : Signup(r)
    \/ \E r \in DOMAIN reqs : SignupCheck(r)
    \/ \E r \in DOMAIN reqs : SignupInsert(r)
    \/ \E r \in DOMAIN reqs : Login(r)
    \/ \E r \in DOMAIN reqs : LoginQuery(r)
    \/ \E r \in DOMAIN reqs : Profile(r)
    \/ \E r \in DOMAIN reqs : ProfileQuery(r)
    \/ \E r \in DOMAIN reqs : ListUsers(r)
    \/ \E r \in DOMAIN reqs : ListQuery(r)
    \/ \E r \in DOMAIN reqs : Finish(r)
    \/ Tick

SpecStartup == InitStartup /\ [][NextStartup]_vars

\* With JWT_SECRET unset no handler lets a token through or hands one out:
\* no request goes on to the store with claims from a token, none is
\* answered 200, 201 or 403, and no token is issued.
ClosedWithoutSecret ==
    ~JWT_SECRET =>
        /\ issued' = issued
        /\ \A r \in DOMAIN reqs :
              /\ reqs'[r].user = NoClaims
              /\ reqs'[r].resp.token = NoToken
              /\ reqs'[r].resp.status \notin {200, 201, 403}
              /\ reqs'[r].pc \notin {"profileQuery", "listQuery", "deleteQuery", "putQuery"}

\* C15: a process started without JWT_SECRET never listens and never takes
\* up a request; and in no step taken with JWT_SECRET unset does the gate or
\* GET /profile accept a token or does signup or login issue one.
C15_FailsClosed ==
    [][/\ ~JWT_SECRET => (server' # "listening" /\ \A r \in DOMAIN reqs : reqs'[r] = Idle)
       /\ ClosedWithoutSecret]_vars

\* C15 witness: the process was started without JWT_SECRET and has exited.
C15_Witness == ~JWT_SECRET /\ server = "exited"

\* C16: an issued token presented before its expiry passes verifyToken
\* whatever the users table holds, and isAdmin decides on the token's role
\* alone: an admin token goes on to the handler, any other is answered 403.
C16_NeverRevoked ==
    [][\A r \in DOMAIN reqs : \A k \in AdminKinds : \A t \in issued :
          (Starts(r, k) /\ Carries(reqs'[r].auth, t) /\ now < t.exp)
          => /\ reqs'[r].user = Claims(t)
             /\ IF t.role = "admin"
                THEN reqs'[r].pc \in HandlerPcs
                ELSE reqs'[r].pc = "done" /\ reqs'[r].resp.status = 403]_vars

\* C16 witness: a token issued to the administrator has passed the admin
\* gate although the administrator's row is gone or no longer has role
\* admin.
C16_Witness ==
    \E r \in DOMAIN reqs : \E t \in issued :
        /\ reqs[r].kind \in AdminKinds /\ reqs[r].pc \in HandlerPcs
        /\ Carries(reqs[r].auth, t) /\ t.role = "admin" /\ now < t.exp
        /\ \A u \in users : u.id = t.id => u.role # "admin"

\* C17: a signup answered 400 was answered in the step that received it,
\* before any store call; one answered 409 was answered in the step that
\* resumed from the existence lookup, so it never reached the insert; in
\* both the users table and the tokens issued are as they were and the
\* response has no token.  The steps of a signup before its insert change
\* neither.
C17_RejectedSignupWritesNothing ==
    [][\A r \in DOMAIN reqs :
          /\ (/\ reqs'[r].kind = "signup" /\ ~Done(r) /\ reqs'[r].pc = "done"
              /\ reqs'[r].resp.status \in {400, 409})
             => /\ reqs'[r].resp.status = 400 <=> reqs[r].pc = "idle"
                /\ reqs'[r].resp.status = 409 <=> reqs[r].pc = "signupCheck"
                /\ reqs'[r].resp.token = NoToken
                /\ users' = users /\ nextId' = nextId /\ issued' = issued
          /\ (Starts(r, "signup") \/ Resumes(r, "signupCheck"))
             => users' = users /\ nextId' = nextId /\ issued' = issued]_vars

\* C17 witness: a signup for a username another signup has just taken was
\* answered 409, and the table holds the one row of that name.
C17_Witness ==
    \E r \in DOMAIN reqs :
        /\ reqs[r].kind = "signup" /\ Done(r)
        /\ reqs[r].resp.status = 409
        /\ reqs[r].error = ErrNone
        /\ Cardinality({u \in users : u.username = Trim(reqs[r].username.s)}) = 1
        /\ nextId = 3

\* The API over a table without an administrator, two requests in flight.
\* The store steps of the admin handlers are left out: they are enabled only
\* once a request has passed the admin gate, which C18 says never happens.
InitNoAdmin ==
    /\ users = {}
    /\ nextId = 1
    /\ now = 0
    /\ issued = {}
    /\ reqs = [r \in RaceSlots |-> Idle]
    /\ JWT_SECRET = TRUE
    /\ server = "listening"

NextNoAdmin ==
    \/ \E r \in DOMAIN reqs : Signup(r)
    \/ \E r \in DOMAIN reqs : SignupCheck(r)
    \/ \E r \in DOMAIN reqs : SignupInsert(r)
    \/ \E r \in DOMAIN reqs : Login(r)
    \/ \E r \in DOMAIN reqs : LoginQuery(r)
    \/ \E r \in DOMAIN reqs : Profile(r)
    \/ \E r \in DOMAIN reqs : ProfileQuery(r)
    \/ \E r \in DOMAIN reqs : ListUsers(r)
    \/ \E r \in DOMAIN reqs : DeleteUser(r)
    \/ \E r \in DOMAIN reqs : PutUser(r)
    \/ \E r \in DOMAIN reqs : Finish(r)
    \/ Tick

SpecNoAdmin == InitNoAdmin /\ [][NextNoAdmin]_vars

\* C18: from a table with no administrator and no token issued, no stored
\* row has role admin, no issued token has role admin, and no request to
\* GET /users, PUT /users/:id or DELETE /users/:id has passed the admin
\* gate: each is idle or was answered 401 or 403.
C18_NoEscalation ==
    /\ \A u \in users : u.role # "admin"
    /\ \A t \in issued : t.role # "admin"
    /\ \A r \in DOMAIN reqs :
          reqs[r].kind \in AdminKinds
          => /\ Done(r)
             /\ reqs[r].resp.status \in {401, 403}

\* C18 witness: a signed-up user's PUT of role admin on the user's own row
\* was answered 403 while a login was in flight;
\* the row still has role user.
C18_Witness ==
    \E r, q \in DOMAIN reqs : \E t \in issued :
        /\ reqs[r].kind = "put" /\ Done(r)
        /\ Carries(reqs[r].auth, t) /\ now < t.exp
        /\ reqs[r].role = "admin" /\ reqs[r].id = t.id
        /\ reqs[r].resp.status = 403
        /\ \E u \in users : u.id = t.id /\ u.role = "user"
        /\ reqs[q].kind = "login" /\ reqs[q].pc = "loginQuery"

====
